---- MODULE Spec2Model ----
(***************************************************************************)
(* Model of term-srs (src/main.py): a terminal spaced-repetition flashcard *)
(* program.  One deck file, the commands `add` and `review`, the SM-2      *)
(* scheduler review_card, the due selection, and the merge-and-save step   *)
(* of run_review_session on its completed and its interrupted path.        *)
(*                                                                         *)
(* Representation.                                                         *)
(*  - ease_factor is kept in hundredths (2.5 is 250, the floor 1.3 is 130);*)
(*    every increment of the code's formula is a whole number of           *)
(*    hundredths, so the arithmetic is exact where the code's floats carry *)
(*    a rounding error of the order of 1e-16.                              *)
(*  - a date is a day number counted from EpochDay; next_review_date is    *)
(*    stored as the code stores it, as the ISO string "YYYY-MM-DD", here   *)
(*    the sequence of its ten character codes, and compared as Python      *)
(*    compares strings.                                                    *)
(*  - the in-memory deck is the list of card objects by position; due_cards*)
(*    and updated_cards hold references (positions) to those objects, so   *)
(*    review_card's in-place update of a due card is an update of the deck.*)
(***************************************************************************)
EXTENDS Integers, Sequences, FiniteSets, TLC

VARIABLES
    today,          \* the clock: datetime.date.today() as a day number
    diskOk,         \* whether writing the deck file succeeds
    exists,         \* os.path.exists(filepath) of the deck file
    store,          \* the content of the deck file
    pc,             \* "idle" | "reveal" | "rating" | "done"
    today_iso,      \* run_review_session's today_iso
    loaded,         \* the deck as load_deck returned it
    deck,           \* run_review_session's deck: the card objects
    due_cards,      \* references to the due objects, shuffled
    updated_cards,  \* references to the objects review_card returned
    i,              \* the loop position: due_cards[i] is presented
    reprompted,     \* whether review_card has prompted again for this card
    ratings,        \* log: the quality and the day of every review made
    reviews,        \* log: review_card calls completed since the initial state
    saves,          \* log: successful save_deck calls of this command
    outcome,        \* what the command printed last
    exitStatus      \* the process's exit status, -1 while it runs

envVars == <<today, diskOk, exists, store>>
sessVars == <<today_iso, loaded, deck, due_cards, updated_cards, i, reprompted, ratings>>
outVars == <<saves, outcome, exitStatus>>
vars == <<today, diskOk, exists, store, pc, today_iso, loaded, deck, due_cards,
          updated_cards, i, reprompted, ratings, reviews, saves, outcome, exitStatus>>

----------------------------------------------------------------------------
(* Bounds of the model. *)

MaxCards == 2
MaxDay == 1
MaxReviews == 2
Horizon == 30
MaxRep == 3
MaxIvl == 6

Fronts == {"f1", "f2"}
Backs == {"b1"}

----------------------------------------------------------------------------
(* Configuration: src/main.py lines 9-15. *)

DEFAULT_EASE_FACTOR == 250
MinEase == 130
None == -1

QUALITY_MAP ==
    (<<"1">> :> 0) @@ (<<"2">> :> 3) @@ (<<"3">> :> 4) @@ (<<"4">> :> 5)

IsSpace(c) == c \in {" ", "\t", "\n"}

RECURSIVE LStrip(_)
LStrip(s) ==
    IF s # <<>> /\ IsSpace(Head(s)) THEN LStrip(Tail(s)) ELSE s

RECURSIVE RStrip(_)
RStrip(s) ==
    IF s # <<>> /\ IsSpace(s[Len(s)]) THEN RStrip(SubSeq(s, 1, Len(s) - 1)) ELSE s

\* str.strip()
Strip(s) == RStrip(LStrip(s))

\* QUALITY_MAP.get(input(...).strip())
QualityOf(s) ==
    IF Strip(s) \in DOMAIN QUALITY_MAP THEN QUALITY_MAP[Strip(s)] ELSE None

\* what the user may type at the rating prompt, as sequences of characters
RatingInputs ==
    { <<"1">>, <<"2">>, <<"3">>, <<"4">>, <<" ", "3">>, <<"4", " ">>,
      <<"0">>, <<"5">>, <<>>, <<" ">>, <<"1", "2">>, <<"x">> }

----------------------------------------------------------------------------
(* Dates: datetime.date, isoformat() and the string comparison.            *)

\* day number 0 of the model, in days since 1970-01-01: 2026-12-31
EpochDay == 20818

\* the civil date <<year, month, day>> of a day number since 1970-01-01
CivilFromDays(n) ==
    LET z == n + 719468
        era == z \div 146097
        doe == z - era * 146097
        yoe == (doe - doe \div 1460 + doe \div 36524 - doe \div 146096) \div 365
        doy == doe - (365 * yoe + yoe \div 4 - yoe \div 100)
        mp == (5 * doy + 2) \div 153
        d == doy - (153 * mp + 2) \div 5 + 1
        m == IF mp < 10 THEN mp + 3 ELSE mp - 9
        y == yoe + era * 400 + (IF m <= 2 THEN 1 ELSE 0)
    IN  <<y, m, d>>

Chr(d) == 48 + d
Dash == 45

\* date.isoformat(): "YYYY-MM-DD", zero padded, as character codes
IsoString(day) ==
    LET c == CivilFromDays(EpochDay + day)
        y == c[1]
        m == c[2]
        d == c[3]
    IN  << Chr(y \div 1000), Chr((y \div 100) % 10), Chr((y \div 10) % 10), Chr(y % 10),
           Dash, Chr(m \div 10), Chr(m % 10),
           Dash, Chr(d \div 10), Chr(d % 10) >>

\* the days of the model: one day before day 0 up to the last date a card
\* of the model is scheduled for
Days == (0 - 1)..(MaxDay + Horizon)

\* isoformat() of every day of the model, computed once
IsoTable == [day \in Days |-> IsoString(day)]

IsoFormat(day) == IsoTable[day]

\* Python's s <= t on strings: lexicographic by code point
RECURSIVE StrLeq(_, _)
StrLeq(s, t) ==
    IF s = <<>> THEN TRUE
    ELSE IF t = <<>> THEN FALSE
    ELSE IF Head(s) < Head(t) THEN TRUE
    ELSE IF Head(s) > Head(t) THEN FALSE
    ELSE StrLeq(Tail(s), Tail(t))

----------------------------------------------------------------------------
(* The scheduler: review_card, src/main.py lines 50-68.                    *)

Max(a, b) == IF a >= b THEN a ELSE b

\* round(interval * ease_factor): Python rounds halves to the even integer
RoundProduct(interval, ease) ==
    LET x == interval * ease
        q == x \div 100
        r == x % 100
    IN  IF r < 50 THEN q
        ELSE IF r > 50 THEN q + 1
        ELSE IF q % 2 = 0 THEN q ELSE q + 1

\* variant: the quadratic term of the increment is left out
EaseDeltaLinear(quality) == 10 - (5 - quality) * 8

\* 0.1 - (5 - quality) * (0.08 + (5 - quality) * 0.02), in hundredths
EaseDelta(quality) == 10 - (5 - quality) * (8 + (5 - quality) * 2)

\* variant: a failing review is scheduled like a successful one
NewIntervalNoReset(card, quality) ==
    IF card.repetitions = 0 THEN 1
    ELSE IF card.repetitions = 1 THEN 6
    ELSE RoundProduct(card.interval, card.ease_factor)

\* variant: a failing review resets the interval to 0
NewIntervalZeroOnFail(card, quality) ==
    IF quality < 3 THEN 0
    ELSE IF card.repetitions = 0 THEN 1
    ELSE IF card.repetitions = 1 THEN 6
    ELSE RoundProduct(card.interval, card.ease_factor)

\* variant: the product is taken with the ease factor this review sets
NewIntervalUsesNewEase(card, quality) ==
    IF quality < 3 THEN 1
    ELSE IF card.repetitions = 0 THEN 1
    ELSE IF card.repetitions = 1 THEN 6
    ELSE RoundProduct(card.interval,
                      Max(MinEase, card.ease_factor + EaseDelta(quality)))

NewInterval(card, quality) ==
    IF quality < 3 THEN 1
    ELSE IF card.repetitions = 0 THEN 1
    ELSE IF card.repetitions = 1 THEN 6
    ELSE RoundProduct(card.interval, card.ease_factor)

\* variant: Hard (3) is taken for a failure
NewRepetitionsAboveThree(card, quality) ==
    IF quality <= 3 THEN 0 ELSE card.repetitions + 1

NewRepetitions(card, quality) ==
    IF quality < 3 THEN 0 ELSE card.repetitions + 1

\* variant: the floor of 1.3 is not applied
NewEaseNoFloor(card, quality) ==
    card.ease_factor + EaseDelta(quality)

\* variant: the ease update is made on the success branch only
NewEaseOnSuccessOnly(card, quality) ==
    IF quality < 3 THEN card.ease_factor
    ELSE Max(MinEase, card.ease_factor + EaseDelta(quality))

\* variant: the floor is written as 0.3
NewEaseFloorTooLow(card, quality) ==
    Max(30, card.ease_factor + EaseDelta(quality))

NewEase(card, quality) ==
    Max(MinEase, card.ease_factor + EaseDelta(quality))

\* variant: the interval is counted from today inclusive
ReviewCardCountsToday(card, quality, day) ==
    [ front |-> card.front,
      back |-> card.back,
      next_review_date |-> IsoFormat(day + NewInterval(card, quality) - 1),
      repetitions |-> NewRepetitions(card, quality),
      interval |-> NewInterval(card, quality),
      ease_factor |-> NewEase(card, quality) ]

\* the card after review_card with a valid quality, on day `day`
ReviewCard(card, quality, day) ==
    [ front |-> card.front,
      back |-> card.back,
      next_review_date |-> IsoFormat(day + NewInterval(card, quality)),
      repetitions |-> NewRepetitions(card, quality),
      interval |-> NewInterval(card, quality),
      ease_factor |-> NewEase(card, quality) ]

\* variant: a new card is first due on the day after its creation
NewCardDueTomorrow(front, back, day) ==
    [ front |-> front,
      back |-> back,
      next_review_date |-> IsoFormat(day + 1),
      repetitions |-> 0,
      interval |-> 1,
      ease_factor |-> DEFAULT_EASE_FACTOR ]

\* add_new_card's new_card
NewCard(front, back, day) ==
    [ front |-> front,
      back |-> back,
      next_review_date |-> IsoFormat(day),
      repetitions |-> 0,
      interval |-> 1,
      ease_factor |-> DEFAULT_EASE_FACTOR ]

----------------------------------------------------------------------------
(* Selection and merge: run_review_session.                                *)

\* variant: the comparison is strict, a card dated today is not due
DueCardsBeforeToday(d, iso) ==
    SelectSeq([p \in DOMAIN d |-> p],
              LAMBDA p : StrLeq(d[p].next_review_date, iso) /\ d[p].next_review_date # iso)

\* positions of the cards with next_review_date <= today_iso, in deck order
DueCards(d, iso) ==
    SelectSeq([p \in DOMAIN d |-> p], LAMBDA p : StrLeq(d[p].next_review_date, iso))

Range(s) == { s[k] : k \in DOMAIN s }

\* random.shuffle: every order of the list
Shuffles(s) ==
    { t \in [DOMAIN s -> Range(s)] : Range(t) = Range(s) }

Key(card) == <<card.front, card.back>>

\* the objects a list of references points to
Objects(d, refs) == [j \in DOMAIN refs |-> d[refs[j]]]

\* { (c['front'], c['back']): c for c in updated }: the last card of a key wins
CardMap(updated) ==
    [ k \in { Key(updated[j]) : j \in DOMAIN updated } |->
        updated[ CHOOSE j \in DOMAIN updated :
                    /\ Key(updated[j]) = k
                    /\ \A j2 \in DOMAIN updated : Key(updated[j2]) = k => j2 <= j ] ]

\* variant: a matched card's update is appended instead of put in its place
MergeDeckAppend(d, updated) ==
    d \o SelectSeq(updated, LAMBDA c : \E p \in DOMAIN d : Key(d[p]) = Key(c))

\* variant: the saved deck is the updated cards, in the order they were
\* reviewed, followed by the cards that were not reviewed
MergeDeckReviewedFirst(d, updated) ==
    updated \o SelectSeq(d, LAMBDA c : Key(c) \notin { Key(updated[j]) : j \in DOMAIN updated })

\* the deck after "for i, card in enumerate(deck): if key in card_map: ..."
MergeDeck(d, updated) ==
    LET card_map == CardMap(updated)
    IN  [ p \in DOMAIN d |->
            IF Key(d[p]) \in DOMAIN card_map THEN card_map[Key(d[p])] ELSE d[p] ]

\* load_deck: a missing file is an empty deck
LoadDeck == IF exists THEN store ELSE <<>>

----------------------------------------------------------------------------
(* Initial states.                                                         *)

\* a card added and reviewed Good twice, seven and six days before day 0
MatureCard ==
    [ front |-> "f1", back |-> "b1", next_review_date |-> IsoFormat(0),
      repetitions |-> 2, interval |-> 6, ease_factor |-> DEFAULT_EASE_FACTOR ]

NoSession ==
    /\ today_iso = <<>>
    /\ loaded = <<>>
    /\ deck = <<>>
    /\ due_cards = <<>>
    /\ updated_cards = <<>>
    /\ i = 0
    /\ reprompted = FALSE
    /\ ratings = <<>>

Init ==
    /\ today = 0
    /\ diskOk = TRUE
    /\ \/ exists = FALSE /\ store = <<>>
       \/ exists = TRUE /\ store = <<>>
       \/ exists = TRUE /\ store = <<MatureCard>>
    /\ pc = "idle"
    /\ NoSession
    /\ reviews = 0
    /\ saves = 0
    /\ outcome = "none"
    /\ exitStatus = -1

----------------------------------------------------------------------------
(* Actions.                                                                *)

\* the clock passes midnight
Tick ==
    /\ today < MaxDay
    /\ today' = today + 1
    /\ UNCHANGED <<diskOk, exists, store, pc>>
    /\ UNCHANGED sessVars
    /\ UNCHANGED outVars
    /\ UNCHANGED reviews

\* the deck file becomes unwritable, or writable again
DiskFault ==
    /\ diskOk' = ~diskOk
    /\ UNCHANGED <<today, exists, store, pc>>
    /\ UNCHANGED sessVars
    /\ UNCHANGED outVars
    /\ UNCHANGED reviews

\* add_new_card with both inputs given
AddCard ==
    /\ pc = "idle"
    /\ Len(LoadDeck) < MaxCards
    /\ \E f \in Fronts, b \in Backs :
        IF diskOk
        THEN /\ store' = Append(LoadDeck, NewCard(f, b, today))
             /\ exists' = TRUE
             /\ saves' = saves + 1
             /\ outcome' = "added"
             /\ exitStatus' = 0
        ELSE /\ UNCHANGED <<store, exists, saves>>
             /\ outcome' = "error"
             /\ exitStatus' = 1
    /\ pc' = "done"
    /\ UNCHANGED <<today, diskOk, reviews>>
    /\ UNCHANGED sessVars

\* add_new_card with KeyboardInterrupt or EOFError at either input
AddCancelled ==
    /\ pc = "idle"
    /\ pc' = "done"
    /\ outcome' = "add_cancelled"
    /\ exitStatus' = 0
    /\ UNCHANGED <<saves, reviews>>
    /\ UNCHANGED envVars
    /\ UNCHANGED sessVars

\* variant: with nothing to review the deck is written back all the same
StartReviewSavesAnyway ==
    /\ pc = "idle"
    /\ LET d == LoadDeck
           iso == IsoFormat(today)
           due == DueCards(d, iso)
       IN  IF due = <<>>
           THEN /\ outcome' = (IF d = <<>> THEN "empty" ELSE "nothing_due")
                /\ exitStatus' = 0
                /\ pc' = "done"
                /\ store' = d
                /\ exists' = TRUE
                /\ saves' = saves + 1
                /\ UNCHANGED sessVars
           ELSE /\ reviews + Len(due) <= MaxReviews
                /\ \E order \in Shuffles(due) : due_cards' = order
                /\ outcome' = "started"
                /\ pc' = "reveal"
                /\ today_iso' = iso
                /\ loaded' = d
                /\ deck' = d
                /\ updated_cards' = <<>>
                /\ i' = 1
                /\ UNCHANGED <<reprompted, ratings, exitStatus, store, exists, saves>>
    /\ UNCHANGED <<today, diskOk, reviews>>

\* run_review_session up to the first prompt
StartReview ==
    /\ pc = "idle"
    /\ LET d == LoadDeck
           iso == IsoFormat(today)
           due == DueCards(d, iso)
       IN  IF d = <<>>
           THEN /\ outcome' = "empty"
                /\ exitStatus' = 0
                /\ pc' = "done"
                /\ UNCHANGED sessVars
           ELSE IF due = <<>>
           THEN /\ outcome' = "nothing_due"
                /\ exitStatus' = 0
                /\ pc' = "done"
                /\ today_iso' = iso
                /\ loaded' = d
                /\ deck' = d
                /\ UNCHANGED <<due_cards, updated_cards, i, reprompted, ratings>>
           ELSE /\ reviews + Len(due) <= MaxReviews
                /\ \E order \in Shuffles(due) : due_cards' = order
                /\ outcome' = "started"
                /\ pc' = "reveal"
                /\ today_iso' = iso
                /\ loaded' = d
                /\ deck' = d
                /\ updated_cards' = <<>>
                /\ i' = 1
                /\ UNCHANGED <<reprompted, ratings, exitStatus>>
    /\ UNCHANGED <<saves, reviews>>
    /\ UNCHANGED envVars

\* Enter at "Press Enter to reveal answer..."
Reveal ==
    /\ pc = "reveal"
    /\ pc' = "rating"
    /\ UNCHANGED envVars
    /\ UNCHANGED sessVars
    /\ UNCHANGED outVars
    /\ UNCHANGED reviews

\* variant: an input that QUALITY_MAP does not hold is scored as Again
\* before review_card prompts again
RateInvalidCountsAsAgain ==
    /\ pc = "rating"
    /\ \E s \in RatingInputs : QualityOf(s) = None
    /\ reprompted' = TRUE
    /\ deck' = [deck EXCEPT ![due_cards[i]] = ReviewCard(deck[due_cards[i]], 0, today)]
    /\ UNCHANGED <<pc, today_iso, loaded, due_cards, updated_cards, i, ratings>>
    /\ UNCHANGED envVars
    /\ UNCHANGED outVars
    /\ UNCHANGED reviews

\* an input that QUALITY_MAP does not hold: review_card prompts again
RateInvalid ==
    /\ pc = "rating"
    /\ \E s \in RatingInputs : QualityOf(s) = None
    /\ reprompted' = TRUE
    /\ UNCHANGED <<pc, today_iso, loaded, deck, due_cards, updated_cards, i, ratings>>
    /\ UNCHANGED envVars
    /\ UNCHANGED outVars
    /\ UNCHANGED reviews

\* variant: a failed save is caught and the session reports as if it had saved
MergeAndSaveSwallowsError(d, updated, said) ==
    \E merged \in {MergeDeck(d, Objects(d, updated))} :
        /\ deck' = merged
        /\ pc' = "done"
        /\ outcome' = said
        /\ exitStatus' = 0
        /\ IF diskOk
           THEN /\ store' = merged
                /\ exists' = TRUE
                /\ saves' = saves + 1
           ELSE UNCHANGED <<store, exists, saves>>

\* the merge of lines 126-130 and 136-140, and save_deck, with what follows:
\* the print after a save that succeeded, or the exception of a save that
\* failed, which no handler catches and which ends the process with status 1
MergeAndSave(d, updated, said) ==
    \E merged \in {MergeDeck(d, Objects(d, updated))} :
        /\ deck' = merged
        /\ pc' = "done"
        /\ IF diskOk
           THEN /\ store' = merged
                /\ exists' = TRUE
                /\ saves' = saves + 1
                /\ outcome' = said
                /\ exitStatus' = 0
           ELSE /\ UNCHANGED <<store, exists, saves>>
                /\ outcome' = "error"
                /\ exitStatus' = 1

\* a valid rating: review_card updates the card presented; after the last
\* due card the loop ends and the deck is merged and saved
RateValid ==
    /\ pc = "rating"
    /\ \E s \in RatingInputs :
        /\ QualityOf(s) # None
        /\ \E quality \in {QualityOf(s)} :
           \E d1 \in {[deck EXCEPT ![due_cards[i]] =
                                    ReviewCard(deck[due_cards[i]], quality, today)]} :
           \E u1 \in {Append(updated_cards, due_cards[i])} :
               /\ updated_cards' = u1
               /\ ratings' = Append(ratings, [quality |-> quality, day |-> today])
               /\ reprompted' = FALSE
               /\ reviews' = reviews + 1
               /\ IF i < Len(due_cards)
                  THEN /\ deck' = d1
                       /\ i' = i + 1
                       /\ pc' = "reveal"
                       /\ UNCHANGED <<store, exists>>
                       /\ UNCHANGED outVars
                  ELSE /\ MergeAndSave(d1, u1, "complete")
                       /\ i' = i + 1
    /\ UNCHANGED <<today, diskOk, today_iso, loaded, due_cards>>

\* variant: the handler reports the interruption and exits without saving
CancelSkipsSave ==
    /\ pc \in {"reveal", "rating"}
    /\ pc' = "done"
    /\ outcome' = "interrupted"
    /\ exitStatus' = 0
    /\ UNCHANGED <<today, diskOk, exists, store, today_iso, loaded, deck, due_cards,
                   updated_cards, i, reprompted, ratings, reviews, saves>>

\* KeyboardInterrupt or EOFError at the reveal prompt, the rating prompt or a
\* re-prompt: the handler merges, saves and exits
Cancel ==
    /\ pc \in {"reveal", "rating"}
    /\ MergeAndSave(deck, updated_cards, "interrupted")
    /\ UNCHANGED <<today, diskOk, today_iso, loaded, due_cards, updated_cards, i,
                   reprompted, ratings, reviews>>

\* the process has ended; the next command starts a new one
Return ==
    /\ pc = "done"
    /\ pc' = "idle"
    /\ today_iso' = <<>>
    /\ loaded' = <<>>
    /\ deck' = <<>>
    /\ due_cards' = <<>>
    /\ updated_cards' = <<>>
    /\ i' = 0
    /\ reprompted' = FALSE
    /\ ratings' = <<>>
    /\ saves' = 0
    /\ outcome' = "none"
    /\ exitStatus' = -1
    /\ UNCHANGED reviews
    /\ UNCHANGED envVars

Next ==
    \/ Tick
    \/ AddCard
    \/ AddCancelled
    \/ StartReview
    \/ Reveal
    \/ RateInvalid
    \/ RateValid
    \/ Cancel
    \/ Return

Spec == Init /\ [][Next]_vars

----------------------------------------------------------------------------
(* Sessions with the clock held: the day enters a session only through the *)
(* dates it writes, never through its control flow.  The user answers      *)
(* every prompt in the end, with Enter, a valid rating or a cancellation;  *)
(* nothing bounds the invalid ratings typed before that.                   *)

NextLive ==
    \/ AddCard
    \/ AddCancelled
    \/ StartReview
    \/ Reveal
    \/ RateInvalid
    \/ RateValid
    \/ Cancel
    \/ Return

LiveSpec == Init /\ [][NextLive]_vars /\ WF_vars(Reveal \/ RateValid \/ Cancel)

----------------------------------------------------------------------------
(* Commands on a deck file that may become unwritable, and writable again, *)
(* at any moment; the clock is held.                                       *)

IONext ==
    \/ DiskFault
    \/ AddCard
    \/ AddCancelled
    \/ StartReview
    \/ Reveal
    \/ RateInvalid
    \/ RateValid
    \/ Cancel
    \/ Return

IOSpec == Init /\ [][IONext]_vars

----------------------------------------------------------------------------
(* The scheduler on any card: a deck of one due card in any scheduling     *)
(* state the data model allows, reviewed over one or more sessions.        *)

SchedEases == {130, 144, 209, 210, 250, 300}

SchedCards ==
    [ front : {"f1"}, back : {"b1"},
      next_review_date : {IsoFormat(0 - 1), IsoFormat(0)},
      repetitions : 0..MaxRep,
      interval : 1..MaxIvl,
      ease_factor : SchedEases ]

SchedInit ==
    /\ today = 0
    /\ diskOk = TRUE
    /\ exists = TRUE
    /\ store \in { <<c>> : c \in SchedCards }
    /\ pc = "idle"
    /\ NoSession
    /\ reviews = 0
    /\ saves = 0
    /\ outcome = "none"
    /\ exitStatus = -1

SchedNext ==
    \/ Tick
    \/ StartReview
    \/ Reveal
    \/ RateInvalid
    \/ RateValid
    \/ Cancel
    \/ Return

SchedSpec == SchedInit /\ [][SchedNext]_vars

----------------------------------------------------------------------------
(* The merge alone: any deck of card objects, any list of references to    *)
(* the objects review_card returned, merged once and then once more.       *)

MergeCards ==
    [ front : Fronts, back : Backs,
      next_review_date : {IsoFormat(0), IsoFormat(1)},
      repetitions : {0, 1},
      interval : {1},
      ease_factor : {DEFAULT_EASE_FACTOR} ]

\* the lists of distinct references into a deck of n objects
RefLists(n) ==
    UNION { { t \in [1..k -> 1..n] : \A a, b \in 1..k : a # b => t[a] # t[b] } : k \in 0..n }

MergeInit ==
    /\ today = 0
    /\ diskOk = TRUE
    /\ exists = FALSE
    /\ store = <<>>
    /\ pc = "merging"
    /\ today_iso = <<>>
    /\ \E n \in 1..MaxCards :
        /\ deck \in [1..n -> MergeCards]
        /\ updated_cards \in RefLists(n)
    /\ loaded = deck
    /\ due_cards = <<>>
    /\ i = 0
    /\ reprompted = FALSE
    /\ ratings = <<>>
    /\ reviews = 0
    /\ saves = 0
    /\ outcome = "none"
    /\ exitStatus = -1

\* lines 126-130 run on the deck, with the same updated objects each time
ApplyMerge ==
    /\ pc = "merging"
    /\ i < 2
    /\ deck' = MergeDeck(deck, Objects(loaded, updated_cards))
    /\ i' = i + 1
    /\ UNCHANGED <<today, diskOk, exists, store, pc, today_iso, loaded, due_cards,
                   updated_cards, reprompted, ratings, reviews, saves, outcome,
                   exitStatus>>

MergeSpec == MergeInit /\ [][ApplyMerge]_vars

----------------------------------------------------------------------------
(* The life of one card: created by add_new_card on day 0, then reviewed   *)
(* by review_card on any later days on which it is due, with any ratings.  *)
(* loaded holds the card as it was before its last review.                 *)

LastDay == MaxDay + Horizon

LifeInit ==
    /\ today = 0
    /\ diskOk = TRUE
    /\ exists = FALSE
    /\ store = <<>>
    /\ pc = "life"
    /\ today_iso = <<>>
    /\ loaded = <<>>
    /\ deck = <<NewCard("f1", "b1", today)>>
    /\ due_cards = <<>>
    /\ updated_cards = <<>>
    /\ i = 0
    /\ reprompted = FALSE
    /\ ratings = <<>>
    /\ reviews = 0
    /\ saves = 0
    /\ outcome = "none"
    /\ exitStatus = -1

\* days pass, until the day the card is due or the day after it
LifeSleep ==
    /\ pc = "life"
    /\ \E d \in (today + 1)..LastDay :
        /\ StrLeq(deck[1].next_review_date, IsoFormat(d))
        /\ StrLeq(IsoFormat(d - 1), deck[1].next_review_date)
        /\ today' = d
    /\ UNCHANGED <<diskOk, exists, store, pc, today_iso, loaded, deck, due_cards,
                   updated_cards, i, reprompted, ratings, reviews, saves, outcome,
                   exitStatus>>

\* review_card on the card, on a day on which it is due
LifeReview ==
    /\ pc = "life"
    /\ DueCards(deck, IsoFormat(today)) = <<1>>
    /\ \E s \in RatingInputs :
        /\ QualityOf(s) # None
        /\ today + NewInterval(deck[1], QualityOf(s)) <= LastDay
        /\ deck' = <<ReviewCard(deck[1], QualityOf(s), today)>>
        /\ ratings' = <<[quality |-> QualityOf(s), day |-> today]>>
    /\ loaded' = deck
    /\ today_iso' = IsoFormat(today)
    /\ updated_cards' = <<1>>
    /\ UNCHANGED <<today, diskOk, exists, store, pc, due_cards, i, reprompted,
                   reviews, saves, outcome, exitStatus>>

LifeNext ==
    \/ LifeSleep
    \/ LifeReview

LifeSpec == LifeInit /\ [][LifeNext]_vars

----------------------------------------------------------------------------
(* Vocabulary of the properties.                                           *)

Reviewing == pc \in {"reveal", "rating"}

\* the session has ended with the deck saved
Saved == pc = "done" /\ outcome \in {"complete", "interrupted"}

WasReviewed(p) == \E j \in DOMAIN updated_cards : updated_cards[j] = p

\* the scheduler's result for the j-th card reviewed: its state as loaded,
\* the rating it was given, the day it was given on
Scheduled(j) ==
    ReviewCard(loaded[updated_cards[j]], ratings[j].quality, ratings[j].day)

\* the object the j-th review returned
ReviewedCard(j) == deck[updated_cards[j]]

SameSchedule(c, d) ==
    /\ c.next_review_date = d.next_review_date
    /\ c.repetitions = d.repetitions
    /\ c.interval = d.interval
    /\ c.ease_factor = d.ease_factor

\* the day an ISO string of the model names
DayOf(iso) == CHOOSE d \in Days : IsoTable[d] = iso

DuplicateKeys(d) ==
    \E p, q \in DOMAIN d : p # q /\ Key(d[p]) = Key(d[q])

----------------------------------------------------------------------------
(* Properties.                                                             *)

\* C1 -- Interruption property: when a session is cancelled after k of its
\* n due cards were scored, the saved deck holds the scheduler's result for
\* exactly those k cards and the loaded state of every other card, also in
\* decks where two cards share a (front, back) pair.
C1_InterruptionProperty ==
    (pc = "done" /\ outcome = "interrupted") =>
        /\ Len(store) = Len(loaded)
        /\ \A p \in DOMAIN loaded :
            /\ \A j \in DOMAIN updated_cards :
                  updated_cards[j] = p => store[p] = Scheduled(j)
            /\ ~WasReviewed(p) => store[p] = loaded[p]

\* C2 -- Cancellation never skips persistence: a session that has entered
\* the review loop ends with the merged deck saved and exit status 0, on
\* the completed and on the interrupted path; no review is made once the
\* deck is saved; the interrupted path exits with status 0 after its save.
C2_CancelNeverSkipsSave ==
    /\ [](Reviewing => <>(Saved /\ saves = 1 /\ store = deck /\ exitStatus = 0))
    /\ [][saves >= 1 => reviews' = reviews]_vars
    /\ [](outcome = "interrupted" => (pc = "done" /\ saves = 1 /\ exitStatus = 0))

\* a session cancelled at a re-prompt, after one card of several was scored
C2_Witness ==
    /\ pc = "done"
    /\ outcome = "interrupted"
    /\ reprompted
    /\ Len(updated_cards) >= 1
    /\ Len(updated_cards) < Len(due_cards)
    /\ saves = 1
    /\ store = deck
    /\ exitStatus = 0

\* C3 -- Merge frame: after a completed or an interrupted session every
\* card that was not due, and every due card not reached, has in the saved
\* deck, at its position, the scheduling fields it was loaded with, also
\* when it shares its (front, back) pair with a reviewed card.
C3_MergeFrame ==
    Saved =>
        /\ Len(store) = Len(loaded)
        /\ \A p \in DOMAIN loaded :
              ~WasReviewed(p) => SameSchedule(store[p], loaded[p])

\* C4 -- Completed session: "session complete" is reported with every card
\* that was due reviewed exactly once and the deck saved, and every such
\* card is saved with the scheduler's result for its own loaded state and
\* its own rating.
C4_CompletedSession ==
    (pc = "done" /\ outcome = "complete") =>
        /\ saves = 1
        /\ Len(updated_cards) = Len(due_cards)
        /\ Range(updated_cards) = Range(DueCards(loaded, today_iso))
        /\ Cardinality(Range(updated_cards)) = Len(updated_cards)
        /\ \A j \in DOMAIN updated_cards : store[updated_cards[j]] = Scheduled(j)

\* C5 -- Ease floor: after any review, with any score, of any card, and in
\* every deck saved afterwards, ease_factor is at least 1.3 (130 hundredths).
C5_EaseFloor ==
    /\ \A j \in DOMAIN updated_cards : ReviewedCard(j).ease_factor >= 130
    /\ (reviews > 0 => \A p \in DOMAIN store : store[p].ease_factor >= 130)

\* a failing review of a card whose ease would have fallen below the floor
C5_Witness ==
    \E j \in DOMAIN updated_cards :
        /\ ratings[j].quality = 0
        /\ loaded[updated_cards[j]].ease_factor < 210
        /\ ReviewedCard(j).ease_factor = 130

\* C6 -- Failing review: after a review with a score below 3, whatever the
\* card's prior state, repetitions is 0, interval is 1 and next_review_date
\* is the day after the day of the review.
C6_FailingReview ==
    \A j \in DOMAIN updated_cards :
        ratings[j].quality < 3 =>
            /\ ReviewedCard(j).repetitions = 0
            /\ ReviewedCard(j).interval = 1
            /\ ReviewedCard(j).next_review_date = IsoString(ratings[j].day + 1)

\* a card with a streak and a long interval, failed
C6_Witness ==
    \E j \in DOMAIN updated_cards :
        /\ ratings[j].quality = 0
        /\ loaded[updated_cards[j]].repetitions >= 2
        /\ loaded[updated_cards[j]].interval > 1
        /\ ReviewedCard(j).repetitions = 0
        /\ ReviewedCard(j).interval = 1

\* C7 -- Successful review: after a review with a score of 3 or more,
\* repetitions is the prior repetitions plus one and interval is at least 1.
C7_SuccessfulReview ==
    \A j \in DOMAIN updated_cards :
        ratings[j].quality >= 3 =>
            /\ ReviewedCard(j).repetitions = loaded[updated_cards[j]].repetitions + 1
            /\ ReviewedCard(j).interval >= 1

\* the smallest product: interval 1 at the ease floor, rated Hard
C7_Witness ==
    \E j \in DOMAIN updated_cards :
        /\ ratings[j].quality = 3
        /\ loaded[updated_cards[j]].repetitions >= 2
        /\ loaded[updated_cards[j]].interval = 1
        /\ loaded[updated_cards[j]].ease_factor = 130
        /\ ReviewedCard(j).repetitions = loaded[updated_cards[j]].repetitions + 1

\* C8 -- Card invariant: every card, in the deck file and in memory, through
\* any adds and any completed or interrupted sessions, has interval >= 1 and
\* repetitions >= 0.
C8_CardInvariant ==
    /\ \A p \in DOMAIN store : store[p].interval >= 1 /\ store[p].repetitions >= 0
    /\ \A p \in DOMAIN deck : deck[p].interval >= 1 /\ deck[p].repetitions >= 0

\* a saved deck with a card past the rounded product and a card reset by Again
C8_Witness ==
    /\ Saved
    /\ \E p, q \in DOMAIN store :
        /\ store[p].repetitions = 3
        /\ store[p].interval = 15
        /\ store[q].repetitions = 0
        /\ store[q].ease_factor = 170

\* C9 -- Due selection: the due cards of a session are exactly the cards of
\* the loaded deck whose next_review_date is today or earlier, each once.
C9_DueSelection ==
    (loaded # <<>>) =>
        /\ Range(due_cards) =
              { p \in DOMAIN loaded :
                  DayOf(loaded[p].next_review_date) <= DayOf(today_iso) }
        /\ Cardinality(Range(due_cards)) = Len(due_cards)

\* a session over a deck with a card due since yesterday and a card due later
C9_Witness ==
    /\ Reviewing
    /\ \E p, q \in DOMAIN loaded :
        /\ DayOf(loaded[p].next_review_date) < DayOf(today_iso)
        /\ p \in Range(due_cards)
        /\ DayOf(loaded[q].next_review_date) > DayOf(today_iso)
        /\ q \notin Range(due_cards)

\* C10 -- Merge idempotence: merging the updated cards into a deck by
\* (front, back) and merging the same cards again gives the deck that
\* merging once gives.
C10_MergeIdempotent ==
    (pc = "merging" /\ i = 2) =>
        deck = MergeDeck(loaded, Objects(loaded, updated_cards))

\* a deck changed by the merge, with two cards of one key in different states
C10_Witness ==
    /\ pc = "merging"
    /\ i = 2
    /\ deck # loaded
    /\ updated_cards # <<>>
    /\ \E p, q \in DOMAIN loaded :
        p # q /\ Key(loaded[p]) = Key(loaded[q]) /\ loaded[p] # loaded[q]

\* the j-th review was of a card in the state add_new_card creates, on the
\* day it is due
ReviewOfNewCard(j) ==
    /\ loaded[updated_cards[j]].repetitions = 0
    /\ loaded[updated_cards[j]].interval = 1
    /\ loaded[updated_cards[j]].ease_factor = DEFAULT_EASE_FACTOR
    /\ loaded[updated_cards[j]].next_review_date = IsoString(ratings[j].day)

\* C11 -- New card reviewed Good: a card with the creation defaults
\* (repetitions 0, interval 1, ease factor 2.5, due today) reviewed with
\* score 4 ends with repetitions 1, interval 1, next_review_date the day
\* after the review, and an ease factor increased from 2.5.
C11_NewCardGoodRaisesEase ==
    \A j \in DOMAIN updated_cards :
        (ReviewOfNewCard(j) /\ ratings[j].quality = 4) =>
            /\ ReviewedCard(j).repetitions = 1
            /\ ReviewedCard(j).interval = 1
            /\ ReviewedCard(j).next_review_date = IsoString(ratings[j].day + 1)
            /\ ReviewedCard(j).ease_factor > DEFAULT_EASE_FACTOR

\* C11 (amended) -- as above, with the ease factor left at 2.5: the
\* increment of score 4 is 0.1 - 1 * (0.08 + 1 * 0.02) = 0.
C11_NewCardGoodKeepsEase ==
    \A j \in DOMAIN updated_cards :
        (ReviewOfNewCard(j) /\ ratings[j].quality = 4) =>
            /\ ReviewedCard(j).repetitions = 1
            /\ ReviewedCard(j).interval = 1
            /\ ReviewedCard(j).next_review_date = IsoString(ratings[j].day + 1)
            /\ ReviewedCard(j).ease_factor = DEFAULT_EASE_FACTOR

\* a card with the creation defaults, due on the day of the session, rated Good
C11_Witness ==
    \E j \in DOMAIN updated_cards :
        /\ ReviewOfNewCard(j)
        /\ ratings[j].quality = 4
        /\ ratings[j].day = DayOf(today_iso)
        /\ ReviewedCard(j).repetitions = 1

\* the session has ended after its review loop
SessionEnded == pc = "done" /\ due_cards # <<>>

\* C12 -- Persistence failure: when save_deck fails at the end of a session,
\* on the completed or on the interrupted path, the process ends with the
\* failure (status 1) and neither "Review session complete!" nor "Session
\* interrupted." is reported; either message is reported only with the
\* merged deck in the file.
C12_SaveFailureSurfaced ==
    /\ (SessionEnded /\ saves = 0) =>
            /\ exitStatus = 1
            /\ outcome \notin {"complete", "interrupted"}
    /\ (outcome \in {"complete", "interrupted"}) =>
            /\ saves = 1
            /\ store = deck

\* a session cancelled after one review of several, its save failing
C12_Witness ==
    /\ SessionEnded
    /\ ~diskOk
    /\ saves = 0
    /\ Len(updated_cards) >= 1
    /\ Len(updated_cards) < Len(due_cards)
    /\ store # deck
    /\ exitStatus = 1

\* no card of the deck file is due today
NothingToReview ==
    LoadDeck = <<>> \/ DueCards(LoadDeck, IsoFormat(today)) = <<>>

\* C13 -- No-op outcomes: run_review_session on a deck that is missing or
\* empty, or has no card with next_review_date <= today, reviews no card,
\* saves nothing and leaves the deck file as it was, ending normally; a
\* missing deck is reported as an empty one, not as an error, and no file
\* is created for it.
C13_NoOpOutcomes ==
    [][ (StartReview /\ NothingToReview) =>
            /\ store' = store
            /\ exists' = exists
            /\ saves' = 0
            /\ reviews' = reviews
            /\ updated_cards' = <<>>
            /\ pc' = "done"
            /\ exitStatus' = 0
            /\ outcome' = (IF LoadDeck = <<>> THEN "empty" ELSE "nothing_due") ]_vars

\* a session over a deck whose cards are all scheduled for later days
C13_Witness ==
    /\ pc = "done"
    /\ outcome = "nothing_due"
    /\ saves = 0
    /\ store # <<>>
    /\ store = loaded
    /\ \A p \in DOMAIN store : ~StrLeq(store[p].next_review_date, today_iso)

\* the card object at the prompt
Presented == deck[due_cards[i]]

C15_CardCreation ==
    /\ [][ AddCard =>
             /\ saves' = 1
             /\ Len(store') = Len(LoadDeck) + 1
             /\ SubSeq(store', 1, Len(LoadDeck)) = LoadDeck
             /\ store'[Len(store')].repetitions = 0
             /\ store'[Len(store')].interval = 1
             /\ store'[Len(store')].ease_factor = 250
             /\ store'[Len(store')].next_review_date = IsoString(today)
             /\ Len(store') \in Range(DueCards(store', IsoFormat(today))) ]_vars
    /\ [][ AddCancelled =>
             /\ store' = store
             /\ exists' = exists
             /\ saves' = 0 ]_vars

\* a card added on a later day behind a card reviewed before
C15_Witness ==
    /\ pc = "done"
    /\ outcome = "added"
    /\ today > 0
    /\ Len(store) = 2
    /\ store[1].repetitions = 3
    /\ store[2] = NewCard(store[2].front, store[2].back, today)

\* n is x / 100 rounded to the nearest integer, a half to the even one
IsRounded(n, x) ==
    /\ 100 * n - 50 <= x
    /\ x <= 100 * n + 50
    /\ (x = 100 * n - 50 \/ x = 100 * n + 50) => n % 2 = 0

\* C16 -- Interval schedule on success: after a review with score >= 3 the
\* interval is 1 when the prior repetitions is 0, 6 when it is 1, and
\* otherwise the prior interval times the prior ease factor (the value
\* before this review's ease update), rounded; a card with repetitions 2,
\* interval 6, ease 2.5 scored 5 gets interval 15 and repetitions 3; after
\* any review next_review_date is the day of the review plus the new
\* interval.
C16_IntervalSchedule ==
    \A j \in DOMAIN updated_cards :
        LET c == loaded[updated_cards[j]]
            r == ReviewedCard(j)
            q == ratings[j].quality
        IN  /\ q >= 3 =>
                /\ c.repetitions = 0 => r.interval = 1
                /\ c.repetitions = 1 => r.interval = 6
                /\ c.repetitions >= 2 =>
                      IsRounded(r.interval, c.interval * c.ease_factor)
            /\ (q = 5 /\ c.repetitions = 2 /\ c.interval = 6 /\ c.ease_factor = 250) =>
                  (r.interval = 15 /\ r.repetitions = 3)
            /\ r.next_review_date = IsoString(ratings[j].day + r.interval)

\* the scenario's card, scored Easy
C16_Witness ==
    \E j \in DOMAIN updated_cards :
        /\ ratings[j].quality = 5
        /\ loaded[updated_cards[j]].repetitions = 2
        /\ loaded[updated_cards[j]].interval = 6
        /\ loaded[updated_cards[j]].ease_factor = 250
        /\ ReviewedCard(j).interval = 15
        /\ ReviewedCard(j).ease_factor = 260

\* the increments of the ease factor by score, in hundredths
EaseStep(q) ==
    CASE q = 0 -> 0 - 80
      [] q = 3 -> 0 - 14
      [] q = 4 -> 0
      [] q = 5 -> 10

\* C17 -- Ease update: after any review, failing or successful, the ease
\* factor is max(1.3, old + d) with d = -0.80 for score 0, -0.14 for score
\* 3, 0.00 for score 4 and +0.10 for score 5; it never increases on scores
\* 0 and 3 and never decreases on scores 4 and 5.
C17_EaseUpdate ==
    \A j \in DOMAIN updated_cards :
        LET c == loaded[updated_cards[j]]
            r == ReviewedCard(j)
            q == ratings[j].quality
        IN  /\ r.ease_factor = Max(130, c.ease_factor + EaseStep(q))
            /\ q \in {0, 3} => r.ease_factor <= c.ease_factor
            /\ q \in {4, 5} => r.ease_factor >= c.ease_factor

\* a failing review that lowers the ease factor of a card with a streak
C17_Witness ==
    \E j \in DOMAIN updated_cards :
        /\ ratings[j].quality = 0
        /\ loaded[updated_cards[j]].repetitions >= 2
        /\ loaded[updated_cards[j]].ease_factor = 250
        /\ ReviewedCard(j).repetitions = 0
        /\ ReviewedCard(j).ease_factor = 170

\* the session has completed
Completed == pc = "done" /\ outcome = "complete"

\* the day the session's last review was made on: the day it was saved on
EndDay == ratings[Len(ratings)].day

\* the card at position p of the deck file is due on day d, by its date and
\* by the selection of run_review_session
DueOn(p, d) ==
    \/ DayOf(store[p].next_review_date) <= d
    \/ p \in Range(DueCards(store, IsoFormat(d)))

\* C18 -- A reviewed card is never due again on the day of its review:
\* after any review next_review_date is later than the day of the review;
\* after a completed session no card of the saved deck is due on the day
\* the session ended, so that a second run_review_session on that day
\* finds nothing due.
C18_NotDueSameDay ==
    /\ \A j \in DOMAIN updated_cards :
          DayOf(ReviewedCard(j).next_review_date) > ratings[j].day
    /\ Completed => (store # <<>> /\ \A p \in DOMAIN store : ~DueOn(p, EndDay))

\* C18 (amended) -- as above, for a completed session during which the date
\* has not changed: a session that runs past midnight may end with cards
\* due on the day it ends.
C18_NotDueSameDayOneDay ==
    /\ \A j \in DOMAIN updated_cards :
          DayOf(ReviewedCard(j).next_review_date) > ratings[j].day
    /\ (Completed /\ IsoFormat(EndDay) = today_iso) =>
          (store # <<>> /\ \A p \in DOMAIN store : ~DueOn(p, EndDay))

\* a session of two cards completed within one day, one card failed and due
\* the next day
C18_Witness ==
    /\ Completed
    /\ IsoFormat(EndDay) = today_iso
    /\ Len(updated_cards) = 2
    /\ \E p \in DOMAIN store : DayOf(store[p].next_review_date) = EndDay + 1
    /\ \A p \in DOMAIN store : ~DueOn(p, EndDay)

\* decks d and e have the same length and the same (front, back) pair at
\* every position
SameShape(d, e) ==
    /\ Len(d) = Len(e)
    /\ \A p \in DOMAIN d : Key(d[p]) = Key(e[p])

\* C19 -- Deck shape: throughout a session the deck has the length of the
\* loaded deck and the loaded (front, back) pair at every position, and so
\* has the deck saved by a completed or an interrupted session, with or
\* without cards sharing a pair; every card review_card returned has the
\* front and back it was loaded with.
C19_DeckShape ==
    /\ (pc \in {"reveal", "rating", "done"} /\ loaded # <<>>) => SameShape(deck, loaded)
    /\ Saved => SameShape(store, loaded)
    /\ \A j \in DOMAIN updated_cards :
          Key(ReviewedCard(j)) = Key(loaded[updated_cards[j]])

\* a saved session over two cards of different pairs, reviewed last first
C19_Witness ==
    /\ Saved
    /\ Len(loaded) = 2
    /\ Key(loaded[1]) # Key(loaded[2])
    /\ updated_cards = <<2, 1>>
    /\ store # loaded
    /\ SameShape(store, loaded)

\* C20 -- Successful recalls never shorten the interval: for a card created
\* by add_new_card and reviewed any number of times, a review with score
\* >= 3 gives an interval at least the interval before that review; a
\* review that lowers the interval has a score below 3.
C20_SuccessNeverShortens ==
    \A j \in DOMAIN updated_cards :
        /\ ratings[j].quality >= 3 =>
              ReviewedCard(j).interval >= loaded[updated_cards[j]].interval
        /\ ReviewedCard(j).interval < loaded[updated_cards[j]].interval =>
              ratings[j].quality < 3

\* a card at the ease floor, past its second repetition, recalled with
\* difficulty: its interval grows by the smallest factor
C20_Witness ==
    \E j \in DOMAIN updated_cards :
        /\ ratings[j].quality = 3
        /\ loaded[updated_cards[j]].ease_factor = 130
        /\ loaded[updated_cards[j]].repetitions >= 3
        /\ loaded[updated_cards[j]].interval >= 8
        /\ ReviewedCard(j).interval > loaded[updated_cards[j]].interval

====
